---- MODULE Spec2Model ----
(***************************************************************************)
(* The committee-roster extraction engine of analyze_full_pdf.py           *)
(* (extract_all_committee_data): a line classifier, a scan state machine,  *)
(* a member-line parser and an aggregator, walked line by line over the    *)
(* pages of a roster document.                                             *)
(*                                                                         *)
(* Lines are strings.  A character of a line is the one-character string   *)
(* SubSeq(s, i, i); the regular expressions of the source are computed     *)
(* character by character below.                                           *)
(***************************************************************************)
EXTENDS Integers, Sequences, FiniteSets, TLC

(***************************************************************************)
(* Bounds of the model.                                                    *)
(***************************************************************************)
MaxLines == 5          \* lines an unconstrained document delivers
LinesPerPage == 2      \* lines on every page of an unconstrained document that has text
MaxEmptyPages == 1     \* pages without text in an unconstrained document
MaxCalls == 2          \* calls of extract_all_committee_data on one document
MaxFilings == 5        \* filings handed to submit_bulk_import
MaxBatchSize == 3      \* batch_size of submit_bulk_import

(***************************************************************************)
(* Characters.                                                             *)
(***************************************************************************)
Ch(s, i) == SubSeq(s, i, i)

UpperLetters == "ABCDEFGHIJKLMNOPQRSTUVWXYZ"
LowerLetters == "abcdefghijklmnopqrstuvwxyz"
Digits == "0123456789"

CharsOf(s) == {Ch(s, i) : i \in 1..Len(s)}

Upper == CharsOf(UpperLetters)
Lower == CharsOf(LowerLetters)
Digit == CharsOf(Digits)

\* \s of the regular expressions and the characters str.strip() removes
IsSpace(c) == c \in {" ", "\t"}

\* the character class [A-Za-z\s\.\-\'] of both member patterns
IsNameChar(c) == c \in Upper \/ c \in Lower \/ IsSpace(c) \/ c \in {".", "-", "'"}

\* the character class [A-Za-z]
IsLetter(c) == c \in Upper \/ c \in Lower

IndexIn(alphabet, c) == CHOOSE i \in 1..Len(alphabet) : Ch(alphabet, i) = c

\* one character under re.IGNORECASE
UpperOf(c) == IF c \in Lower THEN Ch(UpperLetters, IndexIn(LowerLetters, c)) ELSE c

RECURSIVE UpperCase(_)
UpperCase(s) == IF s = "" THEN "" ELSE UpperOf(Ch(s, 1)) \o UpperCase(SubSeq(s, 2, Len(s)))

Range(seq) == {seq[i] : i \in 1..Len(seq)}
SetMin(S) == CHOOSE x \in S : \A y \in S : x <= y
SetMax(S) == CHOOSE x \in S : \A y \in S : x >= y

\* the least element of S, or default when S is empty
MinOr(S, default) == IF S = {} THEN default ELSE SetMin(S)

(***************************************************************************)
(* str methods used by the scanner.                                        *)
(***************************************************************************)
\* s without what lies outside the indexes keep
Between(s, keep) == IF keep = {} THEN "" ELSE SubSeq(s, SetMin(keep), SetMax(keep))

\* str.strip()
Strip(s) == Between(s, {i \in 1..Len(s) : ~IsSpace(Ch(s, i))})

\* str.isupper(): at least one cased character and no lower-case one
IsUpperStr(s) ==
    /\ \E i \in 1..Len(s) : Ch(s, i) \in Upper
    /\ \A i \in 1..Len(s) : Ch(s, i) \notin Lower

\* str.startswith(prefix)
StartsWith(s, prefix) ==
    Len(s) >= Len(prefix) /\ SubSeq(s, 1, Len(prefix)) = prefix

\* `pattern in line`
Contains(s, pattern) ==
    \E i \in 1..(Len(s) - Len(pattern) + 1) : SubSeq(s, i, i + Len(pattern) - 1) = pattern

\* first index at or after i that holds no white space (Len(s) + 1 when there is none)
SkipSpaces(s, i) == MinOr({j \in i..Len(s) : ~IsSpace(Ch(s, j))}, Len(s) + 1)

(***************************************************************************)
(* The regular expressions of the scanner.  An operator that matches from  *)
(* an index gives the index after the match, or 0 when there is none.      *)
(***************************************************************************)
\* a literal of a pattern at index i, under re.IGNORECASE
MatchLit(s, i, lit) ==
    IF i + Len(lit) - 1 <= Len(s)
       /\ UpperCase(SubSeq(s, i, i + Len(lit) - 1)) = UpperCase(lit)
    THEN i + Len(lit) ELSE 0

\* \s+ at index i
MatchSpaces1(s, i) ==
    IF i <= Len(s) /\ IsSpace(Ch(s, i)) THEN SkipSpaces(s, i) ELSE 0

\* r'SUBCOMMITTEES?\s+OF\s+THE\s+COMMITTEE\s+ON' as a sequence of tokens
SectionPattern ==
    << [kind |-> "lit", lit |-> "SUBCOMMITTEE"], [kind |-> "opt", lit |-> "S"],
       [kind |-> "ws1", lit |-> ""], [kind |-> "lit", lit |-> "OF"],
       [kind |-> "ws1", lit |-> ""], [kind |-> "lit", lit |-> "THE"],
       [kind |-> "ws1", lit |-> ""], [kind |-> "lit", lit |-> "COMMITTEE"],
       [kind |-> "ws1", lit |-> ""], [kind |-> "lit", lit |-> "ON"] >>

\* one token at index i.  The optional S is taken when it is there: white space has
\* to follow either way, so giving the S back never turns a failure into a match.
MatchToken(s, i, t) ==
    IF t.kind = "ws1" THEN MatchSpaces1(s, i)
    ELSE IF t.kind = "lit" THEN MatchLit(s, i, t.lit)
    ELSE IF MatchLit(s, i, t.lit) # 0 THEN MatchLit(s, i, t.lit) ELSE i

\* the tokens from index i on
RECURSIVE MatchTokens(_, _, _)
MatchTokens(s, i, toks) ==
    IF toks = <<>> \/ i = 0 THEN i
    ELSE MatchTokens(s, MatchToken(s, i, Head(toks)), Tail(toks))

\* re.match(r'SUBCOMMITTEES?\s+OF\s+THE\s+COMMITTEE\s+ON', line, re.IGNORECASE)
IsSectionHeader(line) == MatchTokens(line, 1, SectionPattern) # 0

\* re.search(r'ON\s+(.+)$', line, re.IGNORECASE) tried at index i: "ON", white space
\* (greedy, giving back one character when it runs to the end), one character or more
OnMatchAt(s, i) ==
    /\ MatchLit(s, i, "ON") # 0
    /\ MatchSpaces1(s, i + 2) # 0
    /\ (MatchSpaces1(s, i + 2) <= Len(s) \/ MatchSpaces1(s, i + 2) >= i + 4)

\* does the search match
OnMatches(s) == \E i \in 1..Len(s) : OnMatchAt(s, i)

\* group(1) of the match that starts at index i
OnGroupAt(s, i) ==
    IF MatchSpaces1(s, i + 2) <= Len(s)
    THEN SubSeq(s, MatchSpaces1(s, i + 2), Len(s))
    ELSE Ch(s, Len(s))

\* group(1) of the leftmost match
OnGroup(s) == OnGroupAt(s, SetMin({k \in 1..Len(s) : OnMatchAt(s, k)}))

\* the skip_patterns list
skip_patterns ==
    << "STANDING COMMITTEES", "SELECT COMMITTEES", "JOINT COMMITTEES",
       "ALPHABETICAL LIST", "HOUSE OF REPRESENTATIVES", "ONE HUNDRED",
       "CONGRESS", "MAJORITY", "MINORITY", "DEMOCRATS", "REPUBLICANS",
       "RATIO", "WASHINGTON", "CONTENTS", "PREPARED UNDER" >>

\* any(pattern in line for pattern in skip_patterns)
MatchesSkipPattern(line) ==
    \E k \in 1..Len(skip_patterns) : Contains(line, skip_patterns[k])

\* int(position)
RECURSIVE IntOf(_)
IntOf(digits) ==
    IF digits = "" THEN 0
    ELSE 10 * IntOf(SubSeq(digits, 1, Len(digits) - 1))
         + (IndexIn(Digits, Ch(digits, Len(digits))) - 1)

\* ,\s*([A-Z]{2}) with the comma at index q: the index of the first state letter, or 0
StateFrom(s, t) ==
    IF t + 1 <= Len(s) /\ Ch(s, t) \in Upper /\ Ch(s, t + 1) \in Upper THEN t ELSE 0

StateAt(s, q) == StateFrom(s, SkipSpaces(s, q + 1))

\* index of the first comma at or after p, or 0
FirstComma(s, p) == MinOr({j \in p..Len(s) : Ch(s, j) = ","}, 0)

\* index after the digits that start at index i (i itself when there is none)
DigitsEnd(s, i) == MinOr({j \in i..Len(s) : Ch(s, j) \notin Digit}, Len(s) + 1)

NoMatch == [ok |-> FALSE, position |-> "", name |-> "", state |-> "", end |-> 0]

\* numbered_pattern r'(\d+)\.\s*([A-Za-z\s\.\-\']+?),\s*([A-Z]{2})' tried at index i.
\* \d+ takes the whole run of digits, up to index d; the name is lazy and its class
\* holds no comma, so it ends at the first comma, index q; the state starts at index t.
\* The greedy \s* after the period takes the white space before the name, so the name
\* starts at the first character that is no white space; when only white space lies
\* between the period and the comma, \s* gives one character back and the name is the
\* character before the comma.
NameStart(s, d, q) ==
    IF SkipSpaces(s, d + 1) < q THEN SkipSpaces(s, d + 1) ELSE q - 1

NumberedState(s, i, d, q, t) ==
    IF t # 0
    THEN [ok |-> TRUE, position |-> SubSeq(s, i, d - 1),
          name |-> SubSeq(s, NameStart(s, d, q), q - 1),
          state |-> SubSeq(s, t, t + 1), end |-> t + 2]
    ELSE NoMatch

NumberedName(s, i, d, q) ==
    IF q > d + 1 /\ \A j \in (d + 1)..(q - 1) : IsNameChar(Ch(s, j))
    THEN NumberedState(s, i, d, q, StateAt(s, q))
    ELSE NoMatch

NumberedDigits(s, i, d) ==
    IF d > i /\ d <= Len(s) /\ Ch(s, d) = "."
    THEN NumberedName(s, i, d, FirstComma(s, d + 1))
    ELSE NoMatch

NumberedAt(s, i) == NumberedDigits(s, i, DigitsEnd(s, i))

\* re.findall(numbered_pattern, line), scanning from index pos
RECURSIVE FindNumbered(_, _)
FindNumberedFrom(s, pos, m) ==
    IF m.ok
    THEN <<[position |-> m.position, name |-> m.name, state |-> m.state]>>
         \o FindNumbered(s, m.end)
    ELSE FindNumbered(s, pos + 1)

FindNumbered(s, pos) ==
    IF pos > Len(s) THEN <<>> ELSE FindNumberedFrom(s, pos, NumberedAt(s, pos))

\* index after the letters that start at index w (w itself when there is none)
LettersEnd(s, w) == MinOr({j \in w..Len(s) : ~IsLetter(Ch(s, j))}, Len(s) + 1)

\* the optional tail (?:\s*,\s*[A-Za-z]+)? from index e: the index after it (e when
\* absent); c is the index of its comma and w the index of its first letter
QualifierLetters(s, e, w) == IF LettersEnd(s, w) > w THEN LettersEnd(s, w) ELSE e

QualifierComma(s, e, c) ==
    IF c <= Len(s) /\ Ch(s, c) = "," THEN QualifierLetters(s, e, SkipSpaces(s, c + 1)) ELSE e

QualifierEnd(s, e) == QualifierComma(s, e, SkipSpaces(s, e))

\* non_numbered_pattern r'([A-Z][A-Za-z\s\.\-\']+?),\s*([A-Z]{2})(?:\s*,\s*[A-Za-z]+)?'
\* tried at index i: the name ends at the first comma, index q; the state starts at t
NonNumberedState(s, i, q, t) ==
    IF t # 0
    THEN [ok |-> TRUE, position |-> "", name |-> SubSeq(s, i, q - 1),
          state |-> SubSeq(s, t, t + 1), end |-> QualifierEnd(s, t + 2)]
    ELSE NoMatch

NonNumberedName(s, i, q) ==
    IF /\ Ch(s, i) \in Upper
       /\ q > i + 1
       /\ \A j \in (i + 1)..(q - 1) : IsNameChar(Ch(s, j))
    THEN NonNumberedState(s, i, q, StateAt(s, q))
    ELSE NoMatch

NonNumberedAt(s, i) == NonNumberedName(s, i, FirstComma(s, i))

\* re.findall(non_numbered_pattern, line), scanning from index pos
RECURSIVE FindNonNumbered(_, _)
FindNonNumberedFrom(s, pos, m) ==
    IF m.ok
    THEN <<[name |-> m.name, state |-> m.state]>> \o FindNonNumbered(s, m.end)
    ELSE FindNonNumbered(s, pos + 1)

FindNonNumbered(s, pos) ==
    IF pos > Len(s) THEN <<>> ELSE FindNonNumberedFrom(s, pos, NonNumberedAt(s, pos))

\* re.sub(r'\s+', ' ', name): every run of white space becomes one blank
RECURSIVE CollapseSpaces(_)
CollapseSpaces(s) ==
    IF s = "" THEN ""
    ELSE IF IsSpace(Ch(s, 1))
         THEN " " \o CollapseSpaces(SubSeq(s, SkipSpaces(s, 1), Len(s)))
         ELSE Ch(s, 1) \o CollapseSpaces(SubSeq(s, 2, Len(s)))

\* re.sub(r'\s+', ' ', name).strip()
NormalizeName(name) == Strip(CollapseSpaces(name))

\* re.sub(r'([a-z])([A-Z])', r'\1 \2', name): a blank at every lower-to-upper transition
RECURSIVE FixConcatenated(_)
FixConcatenated(s) ==
    IF Len(s) < 2 THEN s
    ELSE IF Ch(s, 1) \in Lower /\ Ch(s, 2) \in Upper
         THEN Ch(s, 1) \o " " \o FixConcatenated(SubSeq(s, 2, Len(s)))
         ELSE Ch(s, 1) \o FixConcatenated(SubSeq(s, 2, Len(s)))

\* member_key = f"{name}, {state}"
MemberKey(name, state) == name \o ", " \o state

\* lines 79-82 and 88: the numbered matches, each with its rank and member key
NumberedMembersOf(matches) ==
    [k \in 1..Len(matches) |->
        [position |-> IntOf(matches[k].position),
         member_key |-> MemberKey(NormalizeName(matches[k].name), matches[k].state)]]

\* lines 76-82 and 88: the numbered members of a line
NumberedMembers(line) == NumberedMembersOf(FindNumbered(line, 1))

\* lines 108-112: the matches without a number, each with its member key
NonNumberedMembersOf(matches) ==
    [k \in 1..Len(matches) |->
        [member_key |->
            MemberKey(FixConcatenated(NormalizeName(matches[k].name)), matches[k].state)]]

\* lines 105-112: the members without a number of a line
NonNumberedMembers(line) == NonNumberedMembersOf(FindNonNumbered(line, 1))

(***************************************************************************)
(* Python values.                                                          *)
(***************************************************************************)
\* Python's None.  A committee or subcommittee name is an upper-case line (or what
\* follows "ON" in a section header the document gives), so none of the documents
\* below yields this string as a name.
None == "None"

\* truth value of an optional string: neither None nor ''
Truthy(v) == v # None /\ v # ""

\* an empty dict
EmptyDict == [k \in {} |-> <<>>]

\* d[k].append(v) done only when v is not yet in the list
DictAppendUnique(d, k, v) ==
    IF k \in DOMAIN d
    THEN IF v \in Range(d[k]) THEN d ELSE [d EXCEPT ![k] = Append(@, v)]
    ELSE d @@ (k :> <<v>>)

\* d[k].append(v) on a defaultdict(list)
DictAppend(d, k, v) ==
    IF k \in DOMAIN d THEN [d EXCEPT ![k] = Append(@, v)] ELSE d @@ (k :> <<v>>)

\* d[k1][k2].append(v) on a defaultdict(lambda: defaultdict(list))
DictAppend2(d, k1, k2, v) ==
    IF k1 \in DOMAIN d
    THEN [d EXCEPT ![k1] = DictAppend(@, k2, v)]
    ELSE d @@ (k1 :> DictAppend(EmptyDict, k2, v))

\* the characters of the documents in code point order, for the comparison of strings
CodePoints ==
    "\t '(),-./0123456789ABCDEFGHIJKLMNOPQRSTUVWXYZabcdefghijklmnopqrstuvwxyz"

\* a < b for two str
RECURSIVE StrLess(_, _)
StrLess(a, b) ==
    IF b = "" THEN FALSE
    ELSE IF a = "" THEN TRUE
    ELSE IF Ch(a, 1) = Ch(b, 1) THEN StrLess(SubSeq(a, 2, Len(a)), SubSeq(b, 2, Len(b)))
    ELSE IndexIn(CodePoints, Ch(a, 1)) < IndexIn(CodePoints, Ch(b, 1))

\* sorted(list(S)) for a set of str
RECURSIVE Sorted(_)
Sorted(S) ==
    IF S = {} THEN <<>>
    ELSE LET m == CHOOSE x \in S : \A y \in S \ {x} : StrLess(x, y)
         IN  <<m>> \o Sorted(S \ {m})

(***************************************************************************)
(* The documents.                                                          *)
(***************************************************************************)
\* the lines an unconstrained document is made of
Vocabulary ==
    { "ETHICS",
      "RULES",
      "SUBCOMMITTEES OF THE COMMITTEE ON RULES",
      "Subcommittee of the Committee on",
      "MINORITY",
      "MAJORITY",
      "CONTENTS",
      "XYZ",
      "  ",
      "3. Pete Sessions, TX",
      " 1. Al  Oz, TX2. Bo Ek, CA",
      "PeteSessions, TXJuan Vargas, CA",
      "SUBCOMMITTEE ON MINORITY HEALTH" }

\* The roster of one committee with one subcommittee and three numbered members,
\* followed by the header of the next main committee.
ScenarioHeaders == {"ETHICS", "RULES"}
ScenarioFillers == {<<>>, <<"  ">>, <<"CONTENTS">>, <<"Ratio nine to four">>}

ScenarioLines(c, s, h, filler) ==
    << c, "SUBCOMMITTEES OF THE COMMITTEE ON " \o c >> \o filler \o
    << s, "1. Al Oz, TX", "2. Bo Ek, CA", "3. Pete Sessions, TX", h >>

\* the scenario on one page, or on two pages with a page without text between them
ScenarioDocuments ==
    { <<ScenarioLines(c, s, h, f)>> :
          c \in ScenarioHeaders, s \in {"ENERGY", "HEALTH"}, h \in ScenarioHeaders,
          f \in ScenarioFillers }
    \cup
    { <<SubSeq(ScenarioLines(c, s, h, f), 1, k), <<>>,
        SubSeq(ScenarioLines(c, s, h, f), k + 1, Len(ScenarioLines(c, s, h, f)))>> :
          c \in ScenarioHeaders, s \in {"ENERGY"}, h \in ScenarioHeaders,
          f \in {<<>>}, k \in 1..6 }

\* the documents read twice: the scenario documents and every document of two lines
\* on the first page and one on the second
RerunDocuments ==
    ScenarioDocuments \cup { <<<<a, b>>, <<c>>>> : a \in Vocabulary, b \in Vocabulary, c \in Vocabulary }

\* every line of the documents above
AllLines ==
    Vocabulary \cup
    UNION { UNION { {d[p][k] : k \in 1..Len(d[p])} : p \in 1..Len(d) } : d \in ScenarioDocuments }

(***************************************************************************)
(* State.                                                                  *)
(***************************************************************************)
VARIABLES
    current_committee,        \* optional str
    current_subcommittee,     \* optional str
    in_subcommittee_section,  \* bool
    is_majority,              \* bool
    committees,               \* dict: committee -> list of member keys
    subcommittees,            \* dict: committee -> dict: subcommittee -> list of member keys
    all_members,              \* set of member keys
    member_assignments,       \* dict: member key -> list of assignments
    page_num,                 \* number of the page being read, 0 before the first
    pc,                       \* "scan" while the pages are walked, "done" after the return
    result,                   \* the returned dict, None before the return
    pdf,                      \* the document: its pages when it is a given one
    on_page,                  \* lines of the current page already processed
    nlines,                   \* lines processed
    empty_pages,              \* pages without text met
    records,                  \* history: every assignment produced, in order
    last,                     \* history: the last step taken
    seen,                     \* history: the group the marker lines read so far stand for
    calls,                    \* what the earlier calls on the same document returned
    filings,                  \* submit_bulk_import: request_data["filings"], a list of filing ids
    batch_size,               \* submit_bulk_import: its parameter
    batch_i,                  \* submit_bulk_import: i of the loop over range(0, total, batch_size)
    posts,                    \* submit_bulk_import: the requests posted, each with its outcome
    bulk_pc                   \* "idle", or "loop" and "done" of submit_bulk_import

scan == <<current_committee, current_subcommittee, in_subcommittee_section, is_majority>>
aggregate == <<committees, subcommittees, all_members, member_assignments>>
reader == <<page_num, pdf, on_page, nlines, empty_pages>>
\* what no step of the scan touches
bulk == <<filings, batch_size, batch_i, posts, bulk_pc>>
outside == <<calls, bulk>>
vars == <<scan, aggregate, reader, pc, result, records, last, seen, outside>>

ScanState ==
    [current_committee |-> current_committee,
     current_subcommittee |-> current_subcommittee,
     in_subcommittee_section |-> in_subcommittee_section,
     is_majority |-> is_majority]

\* lines 11-19: the state extract_all_committee_data starts from
InitState ==
    /\ current_committee = None
    /\ current_subcommittee = None
    /\ in_subcommittee_section = FALSE
    /\ is_majority = TRUE
    /\ committees = EmptyDict
    /\ subcommittees = EmptyDict
    /\ all_members = {}
    /\ member_assignments = EmptyDict
    /\ page_num = 0
    /\ pc = "scan"
    /\ result = None
    /\ on_page = 0
    /\ nlines = 0
    /\ empty_pages = 0
    /\ records = <<>>
    /\ last = [kind |-> "start", line |-> "", before |-> ScanState, emitted |-> 0]
    /\ seen = [written |-> "Majority", marked |-> "Majority"]
    /\ calls = <<>>

\* submit_bulk_import is not running
BulkIdle ==
    /\ filings = <<>>
    /\ batch_size = 1
    /\ batch_i = 0
    /\ posts = <<>>
    /\ bulk_pc = "idle"

\* any document within the bounds
Init == InitState /\ BulkIdle /\ pdf = [given |-> FALSE, pages |-> <<>>]

\* one of the scenario documents
InitScenario == InitState /\ BulkIdle /\ pdf \in {[given |-> TRUE, pages |-> d] : d \in ScenarioDocuments}

\* one of the documents that are read twice
InitTwice == InitState /\ BulkIdle /\ pdf \in {[given |-> TRUE, pages |-> d] : d \in RerunDocuments}

\* the lines as the loop sees them after strip
StrippedLines == {Strip(t) : t \in AllLines}

(***************************************************************************)
(* The page text provider: what the two loops (lines 22-29) meet next.     *)
(***************************************************************************)
EmptyPageEvent == [empty |-> TRUE, text |-> "", newpage |-> TRUE]
LineEvent(text, newpage) == [empty |-> FALSE, text |-> text, newpage |-> newpage]

\* a given document: the next line of the current page, else the next page
GivenEvents ==
    IF page_num >= 1 /\ on_page < Len(pdf.pages[page_num])
    THEN {LineEvent(pdf.pages[page_num][on_page + 1], FALSE)}
    ELSE IF page_num < Len(pdf.pages)
         THEN IF pdf.pages[page_num + 1] = <<>>
              THEN {EmptyPageEvent}
              ELSE {LineEvent(pdf.pages[page_num + 1][1], TRUE)}
         ELSE {}

\* an unconstrained document: pages of LinesPerPage lines, and pages without text
AtPageEnd == on_page = 0 \/ on_page = LinesPerPage

FreeEvents ==
    (IF nlines < MaxLines THEN {LineEvent(l, AtPageEnd) : l \in Vocabulary} ELSE {})
    \cup
    (IF AtPageEnd /\ empty_pages < MaxEmptyPages THEN {EmptyPageEvent} ELSE {})

Events == IF pc # "scan" THEN {} ELSE IF pdf.given THEN GivenEvents ELSE FreeEvents

\* the document has no further page
Exhausted == pc = "scan" /\ (pdf.given => GivenEvents = {})

\* the loop counters after a line
ReadLine(e) ==
    /\ page_num' = IF e.newpage THEN page_num + 1 ELSE page_num
    /\ on_page' = IF e.newpage THEN 1 ELSE on_page + 1
    /\ nlines' = nlines + 1
    /\ UNCHANGED <<pdf, empty_pages>>

(***************************************************************************)
(* The line classifier.                                                    *)
(***************************************************************************)
\* line 45 without the test of len(line)
IsHeaderLineAnyLength(line) == IsUpperStr(line) /\ ~StartsWith(line, "SUBCOMMITTEE")

\* line 45: line.isupper() and len(line) > 3 and not line.startswith('SUBCOMMITTEE')
IsHeaderLine(line) ==
    IsUpperStr(line) /\ Len(line) > 3 /\ ~StartsWith(line, "SUBCOMMITTEE")

\* lines 32-72: the branch of the loop body a stripped line takes
LineClass(line) ==
    IF line = "" THEN "blank"
    ELSE IF IsSectionHeader(line) THEN "section"
    ELSE IF IsHeaderLine(line)
         THEN IF MatchesSkipPattern(line) THEN "skip" ELSE "header"
         ELSE "member"

\* What the loop body computes from a stripped line alone: its branch, the committee
\* a section header names (lines 38-40, empty when the search fails), the group a
\* skip line sets (lines 55-58) and the matches of the two member patterns.
AnalysisOf(line) ==
    [line |-> line,
     class |-> LineClass(line),
     section_committee |-> IF OnMatches(line) THEN <<Strip(OnGroup(line))>> ELSE <<>>,
     sets_majority |-> Contains(line, "MAJORITY"),
     sets_minority |-> Contains(line, "MINORITY"),
     numbered |-> NumberedMembers(line),
     non_numbered |-> NonNumberedMembers(line)]

\* line 30: line = line.strip()
Analysis(text) == AnalysisOf(Strip(text))

\* the analysis of every line of the documents, computed once
LineTable == [text \in AllLines |-> Analysis(text)]

\* line 62 with "and not current_subcommittee": the all-caps line after a subcommittee
\* is the next main committee
IsSubcommitteeNameFirstOnly ==
    in_subcommittee_section /\ Truthy(current_committee) /\ ~Truthy(current_subcommittee)

\* line 62 without the test of in_subcommittee_section
IsSubcommitteeNameAnywhere == Truthy(current_committee)

\* line 62: in_subcommittee_section and current_committee
IsSubcommitteeName == in_subcommittee_section /\ Truthy(current_committee)

(***************************************************************************)
(* The member-line parser and the aggregator.                              *)
(***************************************************************************)
Aggregate ==
    [committees |-> committees, subcommittees |-> subcommittees,
     all_members |-> all_members, member_assignments |-> member_assignments,
     records |-> records]

GroupName(majority) == IF majority THEN "Majority" ELSE "Minority"

\* lines 83 and 94 with member_assignments[member_key].insert(0, assignment)
FileMemberFront(agg, member_key, assignment, rule) ==
    [agg EXCEPT !.all_members = @ \cup {member_key},
                !.member_assignments =
                    IF member_key \in DOMAIN @
                    THEN [@ EXCEPT ![member_key] = <<assignment>> \o @]
                    ELSE DictAppend(@, member_key, assignment),
                !.records = Append(@, [member_key |-> member_key, assignment |-> assignment,
                                       rule |-> rule,
                                       in_section |-> in_subcommittee_section,
                                       seen |-> seen])]

\* lines 83 and 94 without all_members.add on line 83
FileMemberUnlisted(agg, member_key, assignment, rule) ==
    [agg EXCEPT !.member_assignments = DictAppend(@, member_key, assignment),
                !.records = Append(@, [member_key |-> member_key, assignment |-> assignment,
                                       rule |-> rule,
                                       in_section |-> in_subcommittee_section,
                                       seen |-> seen])]

\* lines 83 and 94 (113 and 124): all_members.add and member_assignments[...].append;
\* the history keeps the assignment with the rule that produced it and the section flag
FileMember(agg, member_key, assignment, rule) ==
    [agg EXCEPT !.all_members = @ \cup {member_key},
                !.member_assignments = DictAppend(@, member_key, assignment),
                !.records = Append(@, [member_key |-> member_key, assignment |-> assignment,
                                       rule |-> rule,
                                       in_section |-> in_subcommittee_section,
                                       seen |-> seen])]

\* lines 96-99 with both appends done, the committee list always
FileNumberedInBoth(agg, member_key) ==
    IF Truthy(current_subcommittee)
    THEN [agg EXCEPT !.subcommittees =
              DictAppend2(@, current_committee, current_subcommittee, member_key),
                     !.committees = DictAppend(@, current_committee, member_key)]
    ELSE [agg EXCEPT !.committees = DictAppend(@, current_committee, member_key)]

\* lines 96-99 with the test of line 96 on in_subcommittee_section
FileNumberedBySection(agg, member_key) ==
    IF in_subcommittee_section
    THEN [agg EXCEPT !.subcommittees =
              DictAppend2(@, current_committee, current_subcommittee, member_key)]
    ELSE [agg EXCEPT !.committees = DictAppend(@, current_committee, member_key)]

\* lines 96-99: the subcommittee list when a subcommittee is current, else the committee list
FileNumbered(agg, member_key) ==
    IF Truthy(current_subcommittee)
    THEN [agg EXCEPT !.subcommittees =
              DictAppend2(@, current_committee, current_subcommittee, member_key)]
    ELSE [agg EXCEPT !.committees = DictAppend(@, current_committee, member_key)]

\* line 125: always the subcommittee list
FileNonNumbered(agg, member_key) ==
    [agg EXCEPT !.subcommittees =
         DictAppend2(@, current_committee, current_subcommittee, member_key)]

\* lines 85-92: the assignment of a numbered match
NumberedAssignment(m, page, line) ==
    [committee |-> current_committee, subcommittee |-> current_subcommittee,
     position |-> m.position, page |-> page,
     group |-> GroupName(is_majority), raw_line |-> line]

\* lines 115-122 with the group of line 121 taken from is_majority as on line 91
NonNumberedAssignmentByMarker(i, page, line) ==
    [committee |-> current_committee, subcommittee |-> current_subcommittee,
     position |-> 0, page |-> page,
     group |-> GroupName(is_majority), raw_line |-> line]

\* lines 115-122: the assignment of the i-th (from 0) match without a number
NonNumberedAssignment(i, page, line) ==
    [committee |-> current_committee, subcommittee |-> current_subcommittee,
     position |-> 0, page |-> page,
     group |-> GroupName(i = 0), raw_line |-> line]

\* lines 79-99: the loop over the numbered matches
RECURSIVE RecordNumbered(_, _, _, _)
RecordNumbered(agg, matches, page, line) ==
    IF matches = <<>> THEN agg
    ELSE LET m == Head(matches)
             filed == FileMember(agg, m.member_key, NumberedAssignment(m, page, line), "A")
         IN  RecordNumbered(FileNumbered(filed, m.member_key), Tail(matches), page, line)

\* lines 108-125: the loop over the matches without a number, from the i-th (from 0) on
RECURSIVE RecordNonNumbered(_, _, _, _, _)
RecordNonNumbered(agg, matches, i, page, line) ==
    IF i >= Len(matches) THEN agg
    ELSE LET m == matches[i + 1]
             filed == FileMember(agg, m.member_key, NonNumberedAssignment(i, page, line), "B")
         IN  RecordNonNumbered(FileNonNumbered(filed, m.member_key), matches, i + 1, page, line)

\* line 103 without "and not matches"
TriesNonNumberedAlways(matches) == Truthy(current_subcommittee)

\* line 103: current_subcommittee and not matches
TriesNonNumbered(matches) == Truthy(current_subcommittee) /\ matches = <<>>

\* lines 73-125: both patterns on the line analysed as a
ParseMemberLine(a, page) ==
    LET numbered == RecordNumbered(Aggregate, a.numbered, page, a.line)
    IN  IF TriesNonNumbered(a.numbered)
        THEN RecordNonNumbered(numbered, a.non_numbered, 0, page, a.line)
        ELSE numbered

(***************************************************************************)
(* The scan state machine.                                                 *)
(***************************************************************************)
\* lines 37-41 with is_majority = True as on line 70
AfterSectionHeaderResetsGroup(a) ==
    [current_committee |->
        IF a.section_committee # <<>> THEN a.section_committee[1] ELSE current_committee,
     current_subcommittee |->
        IF a.section_committee # <<>> THEN None ELSE current_subcommittee,
     in_subcommittee_section |-> TRUE,
     is_majority |-> TRUE]

\* lines 37-41: the scan state after a section header
AfterSectionHeader(a) ==
    [current_committee |->
        IF a.section_committee # <<>> THEN a.section_committee[1] ELSE current_committee,
     current_subcommittee |->
        IF a.section_committee # <<>> THEN None ELSE current_subcommittee,
     in_subcommittee_section |-> TRUE,
     is_majority |-> is_majority]

\* lines 55-58 with is_majority = 'MAJORITY' in line for every skip line
AfterSkipPatternByMajorityWord(a) ==
    [ScanState EXCEPT !.is_majority = a.sets_majority]

\* lines 55-58: the scan state after a line that holds a skip pattern
AfterSkipPattern(a) ==
    [ScanState EXCEPT !.is_majority = IF a.sets_majority THEN TRUE
                                      ELSE IF a.sets_minority THEN FALSE
                                      ELSE @]

\* line 64 with is_majority = True as on line 70
AfterSubcommitteeHeaderResetsGroup(a) ==
    [ScanState EXCEPT !.current_subcommittee = a.line, !.is_majority = TRUE]

\* line 64: the scan state after the name of a subcommittee
AfterSubcommitteeHeader(a) ==
    [ScanState EXCEPT !.current_subcommittee = a.line]

\* lines 67-70 without the reset of is_majority on line 70
AfterMainCommitteeHeaderKeepsGroup(a) ==
    [current_committee |-> a.line,
     current_subcommittee |-> None,
     in_subcommittee_section |-> FALSE,
     is_majority |-> is_majority]

\* lines 67-70: the scan state after the name of a main committee
AfterMainCommitteeHeader(a) ==
    [current_committee |-> a.line,
     current_subcommittee |-> None,
     in_subcommittee_section |-> FALSE,
     is_majority |-> TRUE]

SetScan(st) ==
    /\ current_committee' = st.current_committee
    /\ current_subcommittee' = st.current_subcommittee
    /\ in_subcommittee_section' = st.in_subcommittee_section
    /\ is_majority' = st.is_majority

(***************************************************************************)
(* The steps of the scan: one per page without text, one per line.  In the *)
(* steps of a line, e is what the provider delivers and a the analysis of  *)
(* its text.                                                               *)
(***************************************************************************)
\* The group an all-caps line stands for by the words it holds, "" when it holds
\* neither MAJORITY nor MINORITY: for any all-caps line (written), and for the
\* all-caps lines that do not start with SUBCOMMITTEE (marked).
MarkerWord(line) ==
    IF Contains(line, "MAJORITY") THEN "Majority"
    ELSE IF Contains(line, "MINORITY") THEN "Minority" ELSE ""

Markers ==
    [l \in StrippedLines |->
        [written |-> IF IsUpperStr(l) THEN MarkerWord(l) ELSE "",
         marked |-> IF IsUpperStr(l) /\ ~StartsWith(l, "SUBCOMMITTEE")
                    THEN MarkerWord(l) ELSE ""]]

\* the group of the last marker line since the last name of a main committee,
\* Majority when there is none
SeenAfter(kind, line) ==
    IF kind = "committee" THEN [written |-> "Majority", marked |-> "Majority"]
    ELSE IF kind \in {"empty_page", "return"} \/ line = "" THEN seen
    ELSE [written |-> IF Markers[line].written # "" THEN Markers[line].written
                      ELSE seen.written,
          marked |-> IF Markers[line].marked # "" THEN Markers[line].marked
                     ELSE seen.marked]

Step(kind, line, emitted) ==
    /\ last' = [kind |-> kind, line |-> line, before |-> ScanState, emitted |-> emitted]
    /\ seen' = SeenAfter(kind, line)
    /\ UNCHANGED outside

\* line 22: page_num of the page a line is on
PageOf(e) == IF e.newpage THEN page_num + 1 ELSE page_num

\* lines 23-25 with the scan state of lines 16-19 set again at a page without text
SkipEmptyPageResets ==
    \E e \in Events :
        /\ e.empty
        /\ page_num' = page_num + 1
        /\ on_page' = 0
        /\ empty_pages' = empty_pages + 1
        /\ Step("empty_page", "", 0)
        /\ SetScan([current_committee |-> None, current_subcommittee |-> None,
                    in_subcommittee_section |-> FALSE, is_majority |-> TRUE])
        /\ UNCHANGED <<aggregate, pc, result, records, pdf, nlines>>

\* lines 23-25: a page without text
SkipEmptyPage ==
    \E e \in Events :
        /\ e.empty
        /\ page_num' = page_num + 1
        /\ on_page' = 0
        /\ empty_pages' = empty_pages + 1
        /\ Step("empty_page", "", 0)
        /\ UNCHANGED <<scan, aggregate, pc, result, records, pdf, nlines>>

\* lines 30-33: a line that is empty once stripped
BlankLine(e, a) ==
    /\ a.class = "blank"
    /\ ReadLine(e)
    /\ Step("blank", a.line, 0)
    /\ UNCHANGED <<scan, aggregate, pc, result, records>>

SkipBlankLine == \E e \in Events : ~e.empty /\ BlankLine(e, LineTable[e.text])

\* lines 35-42: a subcommittee section header
SectionLine(e, a) ==
    /\ a.class = "section"
    /\ SetScan(AfterSectionHeader(a))
    /\ ReadLine(e)
    /\ Step("section", a.line, 0)
    /\ UNCHANGED <<aggregate, pc, result, records>>

SectionHeader == \E e \in Events : ~e.empty /\ SectionLine(e, LineTable[e.text])

\* lines 54-59: an upper-case line holding one of the skip patterns
SkipLine(e, a) ==
    /\ a.class = "skip"
    /\ SetScan(AfterSkipPattern(a))
    /\ ReadLine(e)
    /\ Step("skip", a.line, 0)
    /\ UNCHANGED <<aggregate, pc, result, records>>

SkipPattern == \E e \in Events : ~e.empty /\ SkipLine(e, LineTable[e.text])

\* lines 62-64 and 71: an upper-case line inside a subcommittee section
SubcommitteeLine(e, a) ==
    /\ a.class = "header"
    /\ IsSubcommitteeName
    /\ SetScan(AfterSubcommitteeHeader(a))
    /\ ReadLine(e)
    /\ Step("subcommittee", a.line, 0)
    /\ UNCHANGED <<aggregate, pc, result, records>>

SubcommitteeHeader == \E e \in Events : ~e.empty /\ SubcommitteeLine(e, LineTable[e.text])

\* lines 65-71: an upper-case line elsewhere
MainCommitteeLine(e, a) ==
    /\ a.class = "header"
    /\ ~IsSubcommitteeName
    /\ SetScan(AfterMainCommitteeHeader(a))
    /\ ReadLine(e)
    /\ Step("committee", a.line, 0)
    /\ UNCHANGED <<aggregate, pc, result, records>>

MainCommitteeHeader == \E e \in Events : ~e.empty /\ MainCommitteeLine(e, LineTable[e.text])

\* lines 73-125: any other line; agg is the aggregate after the line
AssignmentLine(e, a, agg) ==
    /\ a.class = "member"
    /\ committees' = agg.committees
    /\ subcommittees' = agg.subcommittees
    /\ all_members' = agg.all_members
    /\ member_assignments' = agg.member_assignments
    /\ records' = agg.records
    /\ ReadLine(e)
    /\ Step("member", a.line, Len(agg.records) - Len(records))
    /\ UNCHANGED <<scan, pc, result>>

ParsedLine(e, a) == AssignmentLine(e, a, ParseMemberLine(a, PageOf(e)))

MemberLine == \E e \in Events : ~e.empty /\ ParsedLine(e, LineTable[e.text])

\* list(all_members) without sorted(): a set of str is walked in the order of the
\* hashes of its members, which differs from one run of the interpreter to the next
MembersListUnsorted(members) ==
    {l \in [1..Cardinality(members) -> members] : Range(l) = members}

\* line 130: sorted(list(all_members)), the one list the order of the set cannot change
MembersList(members) == {Sorted(members)}

\* lines 127-132: the pages are exhausted
Return ==
    /\ Exhausted
    /\ pc' = "done"
    /\ \E members \in MembersList(all_members) :
           result' = [committees |-> committees, subcommittees |-> subcommittees,
                      members |-> members,
                      member_assignments |-> member_assignments]
    /\ Step("return", "", 0)
    /\ UNCHANGED <<scan, aggregate, reader, records>>

\* lines 8-19: the function is called again on the same document, its locals made anew
CallAgain ==
    /\ pc = "done"
    /\ Len(calls) < MaxCalls - 1
    /\ calls' = Append(calls, result)
    /\ SetScan([current_committee |-> None, current_subcommittee |-> None,
                in_subcommittee_section |-> FALSE, is_majority |-> TRUE])
    /\ committees' = EmptyDict
    /\ subcommittees' = EmptyDict
    /\ all_members' = {}
    /\ member_assignments' = EmptyDict
    /\ page_num' = 0
    /\ pc' = "scan"
    /\ result' = None
    /\ on_page' = 0
    /\ nlines' = 0
    /\ empty_pages' = 0
    /\ records' = <<>>
    /\ last' = [kind |-> "start", line |-> "", before |-> ScanState', emitted |-> 0]
    /\ seen' = [written |-> "Majority", marked |-> "Majority"]
    /\ UNCHANGED <<pdf, bulk>>

Next ==
    \/ SkipEmptyPage
    \/ SkipBlankLine
    \/ SectionHeader
    \/ SkipPattern
    \/ SubcommitteeHeader
    \/ MainCommitteeHeader
    \/ MemberLine
    \/ Return

Spec == Init /\ [][Next]_vars

NextTwice == Next \/ CallAgain

SpecScenario == InitScenario /\ [][Next]_vars
SpecTwice == InitTwice /\ [][NextTwice]_vars

(***************************************************************************)
(* bulk_import.py, submit_bulk_import: the filings are posted batch by     *)
(* batch.  A filing is its filing id.                                      *)
(***************************************************************************)
\* line 45: total = len(filings)
total == Len(filings)

\* line 50: filings[i:i + batch_size]
Batch == SubSeq(filings, batch_i + 1, SetMin({batch_i + batch_size, total}))

\* lines 55-72: what a post comes to: status 200, another status, or an exception
\* raised by requests.post or while the response is read
Responses == {"200", "other", "exception"}

\* lines 62-72 with the loop left at the first batch that is not answered with 200
AfterResponseStopsOnFailure(response) == IF response = "200" THEN "loop" ELSE "done"

\* lines 62-72: every branch prints and the loop goes on
AfterResponse(response) == "loop"

\* lines 49-72: one turn of the loop
PostBatch ==
    /\ bulk_pc = "loop"
    /\ batch_i < total
    /\ \E response \in Responses :
           /\ posts' = Append(posts, [filings |-> Batch, response |-> response])
           /\ bulk_pc' = AfterResponse(response)
    /\ batch_i' = batch_i + batch_size
    /\ UNCHANGED <<filings, batch_size>>
    /\ UNCHANGED <<scan, aggregate, reader, pc, result, records, last, seen, calls>>

\* line 49: range(0, total, batch_size) is exhausted and the function returns
FinishBulk ==
    /\ bulk_pc = "loop"
    /\ batch_i >= total
    /\ bulk_pc' = "done"
    /\ UNCHANGED <<filings, batch_size, batch_i, posts>>
    /\ UNCHANGED <<scan, aggregate, reader, pc, result, records, last, seen, calls>>

NextBulk == PostBatch \/ FinishBulk

\* lines 42-47: a call with up to MaxFilings filings and a positive batch_size
InitBulk ==
    /\ InitState
    /\ pdf = [given |-> FALSE, pages |-> <<>>]
    /\ filings \in {[n \in 1..m |-> n] : m \in 0..MaxFilings}
    /\ batch_size \in 1..MaxBatchSize
    /\ batch_i = 0
    /\ posts = <<>>
    /\ bulk_pc = "loop"

\* the loop is run by one thread and every turn of it ends (the post has a timeout)
SpecBulk == InitBulk /\ [][NextBulk]_vars /\ WF_vars(NextBulk)

(***************************************************************************)
(* Properties.                                                             *)
(***************************************************************************)

\* the last step processed a line that was not blank
LineStep == last.kind \in {"section", "skip", "subcommittee", "committee", "member"}

\* the records the last step produced
LastRecords == SubSeq(records, Len(records) - last.emitted + 1, Len(records))

\* the member keys of the records of committee c and subcommittee s, in order
RECURSIVE KeysOf(_, _, _)
KeysOf(recs, c, s) ==
    IF recs = <<>> THEN <<>>
    ELSE (IF Head(recs).assignment.committee = c /\ Head(recs).assignment.subcommittee = s
          THEN <<Head(recs).member_key>> ELSE <<>>) \o KeysOf(Tail(recs), c, s)

\* the assignments of the records of member key k, in order
RECURSIVE AssignmentsOf(_, _)
AssignmentsOf(recs, k) ==
    IF recs = <<>> THEN <<>>
    ELSE (IF Head(recs).member_key = k THEN <<Head(recs).assignment>> ELSE <<>>)
         \o AssignmentsOf(Tail(recs), k)

\* sum of the lengths of the lists of a dict
RECURSIVE TotalLen(_)
TotalLen(d) ==
    IF DOMAIN d = {} THEN 0
    ELSE LET k == CHOOSE x \in DOMAIN d : TRUE
         IN  Len(d[k]) + TotalLen([x \in DOMAIN d \ {k} |-> d[x]])

\* sum of the lengths of the lists of a dict of dicts
RECURSIVE TotalLen2(_)
TotalLen2(d) ==
    IF DOMAIN d = {} THEN 0
    ELSE LET k == CHOOSE x \in DOMAIN d : TRUE
         IN  TotalLen(d[k]) + TotalLen2([x \in DOMAIN d \ {k} |-> d[x]])

\* the member keys listed in the committee lists and in the subcommittee lists
ListedKeys ==
    UNION {Range(committees[c]) : c \in DOMAIN committees}
    \cup UNION { UNION {Range(subcommittees[c][s]) : s \in DOMAIN subcommittees[c]} :
                  c \in DOMAIN subcommittees }

\* all-caps lines longer than 3 that do not start with SUBCOMMITTEE and hold no skip pattern
HeaderShaped == {l \in StrippedLines : IsHeaderLine(l) /\ ~MatchesSkipPattern(l)}

\* lines that begin with SUBCOMMITTEE(S) OF THE COMMITTEE ON, in any case
SectionShaped == {l \in StrippedLines : IsSectionHeader(l)}

\* the text that follows the section header's prefix on each such line
AfterOn == [l \in SectionShaped |->
               Strip(SubSeq(l, MatchTokens(l, 1, SectionPattern), Len(l)))]

\* the entries of both member patterns on each line
Entries == [l \in StrippedLines |->
               [numbered |-> NumberedMembers(l), non_numbered |-> NonNumberedMembers(l)]]

ThreeMembers == {"Al Oz, TX", "Bo Ek, CA", "Pete Sessions, TX"}

\* C1: after a committee header, a section header for it, a subcommittee header and
\* three numbered member lines, a new main-committee header leaves no subcommittee
\* current, and the old committee's list in committees holds the three members.
C1_NewCommitteeAfterSubcommittee ==
    (pdf.given /\ GivenEvents = {} /\ last.kind \in {"committee", "subcommittee"}) =>
        /\ current_subcommittee = None
        /\ pdf.pages[1][1] \in DOMAIN committees
        /\ ThreeMembers \subseteq Range(committees[pdf.pages[1][1]])

\* a line taken as the name of a main committee: all caps, longer than 3, not starting
\* with SUBCOMMITTEE, no skip pattern, and not read inside a subcommittee section of a
\* known committee
TakenAsMainCommittee ==
    /\ LineStep
    /\ last.line \in HeaderShaped
    /\ ~(last.before.in_subcommittee_section /\ Truthy(last.before.current_committee))

\* C2: a line taken as a main-committee header makes the line the current committee,
\* leaves no subcommittee current, leaves the subcommittee section and sets the
\* group to Majority.
C2_MainCommitteeHeaderResets ==
    TakenAsMainCommittee =>
        /\ current_committee = last.line
        /\ current_subcommittee = None
        /\ in_subcommittee_section = FALSE
        /\ is_majority = TRUE

C2_Witness ==
    /\ TakenAsMainCommittee
    /\ last.before.is_majority = FALSE
    /\ Truthy(last.before.current_committee)
    /\ last.before.current_committee # last.line
    /\ pc = "scan"

\* C3: a subcommittee is current only inside a subcommittee section, and a record
\* names a subcommittee only if the subcommittee section was open when it was produced.
C3_SubcommitteeOnlyInSection ==
    /\ current_subcommittee # None => in_subcommittee_section
    /\ \A i \in 1..Len(records) :
           records[i].assignment.subcommittee # None => records[i].in_section

C3_Witness ==
    /\ current_subcommittee # None
    /\ in_subcommittee_section
    /\ \E i \in 1..Len(records) :
           records[i].assignment.subcommittee # None /\ records[i].in_section
    /\ \E i \in 1..Len(records) : records[i].assignment.subcommittee = None

\* C4: after a line that begins with SUBCOMMITTEE(S) OF THE COMMITTEE ON, in any
\* case, the subcommittee section is open, no subcommittee is current, and the
\* current committee is the name that follows ON on the line.
C4_SectionHeaderState ==
    (LineStep /\ last.line \in SectionShaped) =>
        /\ in_subcommittee_section = TRUE
        /\ current_subcommittee = None
        /\ AfterOn[last.line] # "" => current_committee = AfterOn[last.line]

\* C5: every record names a committee: no record, and no committee list, is filed
\* under a committee that is null.
C5_RecordHasCommittee ==
    /\ \A i \in 1..Len(records) : records[i].assignment.committee # None
    /\ None \notin DOMAIN committees
    /\ None \notin DOMAIN subcommittees

RecordKeys == {records[i].member_key : i \in 1..Len(records)}

\* C6 as stated: every record is appended to the committee lists, to the subcommittee
\* lists, to the member's assignments and to the member set.
C6_FiledInAllIndexes ==
    \A i \in 1..Len(records) :
        LET k == records[i].member_key
            a == records[i].assignment
        IN  /\ a.committee \in DOMAIN committees
            /\ k \in Range(committees[a.committee])
            /\ a.committee \in DOMAIN subcommittees
            /\ a.subcommittee \in DOMAIN subcommittees[a.committee]
            /\ k \in Range(subcommittees[a.committee][a.subcommittee])
            /\ k \in DOMAIN member_assignments
            /\ a \in Range(member_assignments[k])
            /\ k \in all_members

\* C6 amended: every record is appended, in the order produced, to the member's
\* assignments, its key is added to the member set, and its key is appended to
\* exactly one list: the subcommittee's when the record names a subcommittee, the
\* committee's when it names none.
C6_FiledInMemberIndexAndOneList ==
    /\ all_members = RecordKeys
    /\ DOMAIN member_assignments = RecordKeys
    /\ \A k \in RecordKeys : member_assignments[k] = AssignmentsOf(records, k)
    /\ \A i \in 1..Len(records) :
           LET k == records[i].member_key
               a == records[i].assignment
           IN  IF Truthy(a.subcommittee)
               THEN /\ a.committee \in DOMAIN subcommittees
                    /\ a.subcommittee \in DOMAIN subcommittees[a.committee]
                    /\ k \in Range(subcommittees[a.committee][a.subcommittee])
               ELSE /\ a.committee \in DOMAIN committees
                    /\ k \in Range(committees[a.committee])
    /\ TotalLen(committees) + TotalLen2(subcommittees) = Len(records)

C6_Witness ==
    \E i, j \in 1..Len(records) :
        /\ i < j
        /\ records[i].member_key = records[j].member_key
        /\ records[i].assignment.subcommittee = None
        /\ records[j].assignment.subcommittee # None
        /\ Len(member_assignments[records[i].member_key]) = 2

\* C7: the list of committee c in committees holds the keys of exactly the records
\* of c that name no subcommittee, and the list of subcommittee s of c in
\* subcommittees the keys of exactly the records of c that name s, in order.
C7_ListsBySubcommittee ==
    /\ DOMAIN committees =
           {records[i].assignment.committee :
                i \in {n \in 1..Len(records) : ~Truthy(records[n].assignment.subcommittee)}}
    /\ \A c \in DOMAIN committees : committees[c] = KeysOf(records, c, None)
    /\ DOMAIN subcommittees =
           {records[i].assignment.committee :
                i \in {n \in 1..Len(records) : Truthy(records[n].assignment.subcommittee)}}
    /\ \A c \in DOMAIN subcommittees :
           /\ DOMAIN subcommittees[c] =
                  {records[i].assignment.subcommittee :
                       i \in {n \in 1..Len(records) :
                                  /\ records[n].assignment.committee = c
                                  /\ Truthy(records[n].assignment.subcommittee)}}
           /\ \A sc \in DOMAIN subcommittees[c] :
                  subcommittees[c][sc] = KeysOf(records, c, sc)

C7_Witness ==
    /\ \E c \in DOMAIN committees : Len(committees[c]) >= 1
    /\ \E c \in DOMAIN subcommittees :
           \E sc \in DOMAIN subcommittees[c] : Len(subcommittees[c][sc]) >= 2

\* C8: the member set is the set of keys of member_assignments and the set of keys
\* listed in committees and subcommittees.
C8_MemberSetIsKeysOfIndexes ==
    /\ all_members = DOMAIN member_assignments
    /\ all_members = ListedKeys

C8_Witness ==
    /\ Cardinality(all_members) >= 2
    /\ Len(records) > Cardinality(all_members)
    /\ pc = "done"
    /\ Len(result.members) = Cardinality(all_members)

\* the i-th record of the last step has the rule, key, rank and group given and the
\* committee and subcommittee that were current when the line was read
LastRecordIs(i, rule, member_key, position, group) ==
    /\ LastRecords[i].rule = rule
    /\ LastRecords[i].member_key = member_key
    /\ LastRecords[i].assignment.position = position
    /\ LastRecords[i].assignment.group = group
    /\ LastRecords[i].assignment.committee = last.before.current_committee
    /\ LastRecords[i].assignment.subcommittee = last.before.current_subcommittee

\* C9: a member line with k >= 1 numbered entries yields exactly k records, in the
\* order of the entries, each with the entry's integer as rank, the current group,
\* the current committee and the current subcommittee, and none by the pattern
\* without numbers; "3. Pete Sessions, TX" under RULES, no subcommittee, Majority
\* yields one record of rank 3 and group Majority.
C9_NumberedEntries ==
    /\ (last.kind = "member" /\ Entries[last.line].numbered # <<>>) =>
           /\ last.emitted = Len(Entries[last.line].numbered)
           /\ \A i \in 1..last.emitted :
                  LastRecordIs(i, "A", Entries[last.line].numbered[i].member_key,
                               Entries[last.line].numbered[i].position,
                               GroupName(last.before.is_majority))
    /\ (last.kind = "member" /\ last.line = "3. Pete Sessions, TX") =>
           /\ last.emitted = 1
           /\ LastRecords[1].member_key = "Pete Sessions, TX"
           /\ LastRecords[1].assignment.position = 3
           /\ (/\ last.before.current_committee = "RULES"
               /\ last.before.current_subcommittee = None
               /\ last.before.is_majority)
              => /\ LastRecords[1].assignment.committee = "RULES"
                 /\ LastRecords[1].assignment.subcommittee = None
                 /\ LastRecords[1].assignment.group = "Majority"
    /\ (last.kind = "member" /\ last.line = "1. Al  Oz, TX2. Bo Ek, CA") =>
           /\ last.emitted = 2
           /\ LastRecords[1].member_key = "Al Oz, TX"
           /\ LastRecords[1].assignment.position = 1
           /\ LastRecords[2].member_key = "Bo Ek, CA"
           /\ LastRecords[2].assignment.position = 2

C9_Witness ==
    /\ last.kind = "member"
    /\ last.emitted = 2
    /\ LastRecords[1].rule = "A"
    /\ LastRecords[2].assignment.position = 2
    /\ last.before.current_subcommittee # None
    /\ ~last.before.is_majority
    /\ LastRecords[2].assignment.group = "Minority"

\* C10: the pattern without numbers yields records only on a line read while a
\* subcommittee is current and on which the numbered pattern matched nothing; its
\* records follow the matches in order, have rank 0, group Majority for the first
\* and Minority for every later one whatever the current group, and carry the
\* current committee and subcommittee; a line without numbered entries read while
\* no subcommittee is current yields no record.
C10_UnnumberedEntries ==
    /\ last.kind = "member" =>
           IF Entries[last.line].numbered = <<>> /\ Truthy(last.before.current_subcommittee)
           THEN /\ last.emitted = Len(Entries[last.line].non_numbered)
                /\ \A i \in 1..last.emitted :
                       LastRecordIs(i, "B", Entries[last.line].non_numbered[i].member_key, 0,
                                    IF i = 1 THEN "Majority" ELSE "Minority")
           ELSE /\ \A i \in 1..last.emitted : LastRecords[i].rule = "A"
                /\ Entries[last.line].numbered = <<>> => last.emitted = 0
    /\ \A i \in 1..Len(records) :
           records[i].rule = "B" => /\ records[i].assignment.position = 0
                                    /\ records[i].assignment.subcommittee # None
    /\ (/\ last.kind = "member"
        /\ last.line = "PeteSessions, TXJuan Vargas, CA"
        /\ last.before.current_subcommittee # None)
       => /\ last.emitted = 2
          /\ LastRecords[1].member_key = "Pete Sessions, TX"
          /\ LastRecords[1].assignment.group = "Majority"
          /\ LastRecords[2].member_key = "Juan Vargas, CA"
          /\ LastRecords[2].assignment.group = "Minority"

C10_Witness ==
    /\ last.kind = "member"
    /\ last.emitted = 2
    /\ LastRecords[1].rule = "B"
    /\ LastRecords[2].rule = "B"
    /\ ~last.before.is_majority
    /\ LastRecords[1].assignment.group = "Majority"
    /\ \E i \in 1..Len(records) : records[i].rule = "A"

\* all-caps lines of at most 3 characters
ShortCaps == {l \in StrippedLines : IsUpperStr(l) /\ Len(l) <= 3}

\* C11: an all-caps line of at most 3 characters is never taken as the name of a
\* committee or of a subcommittee: it leaves the current committee, the current
\* subcommittee, the section flag and the group as they were, and it goes to the
\* member-line parser.
C11_ShortCapsIsNoHeader ==
    (last.kind \notin {"start", "empty_page", "return"} /\ last.line \in ShortCaps) =>
        /\ last.kind = "member"
        /\ ScanState = last.before

C11_Witness ==
    /\ last.kind = "member"
    /\ last.line = "XYZ"
    /\ last.emitted = 0
    /\ last.before.in_subcommittee_section
    /\ last.before.current_committee = "RULES"
    /\ current_subcommittee = None
    /\ ~is_majority

\* C12: two calls on the same pages and lines, each starting from fresh locals,
\* return the same value: the same committees, subcommittees, sorted members and
\* member assignments, every list in the same order.
C12_SameOutputTwice ==
    (pc = "done" /\ calls # <<>>) => \A n \in 1..Len(calls) : result = calls[n]

C12_Witness ==
    /\ pc = "done"
    /\ calls # <<>>
    /\ result = calls[1]
    /\ Len(result.members) >= 2
    /\ result.members # <<records[1].member_key, records[2].member_key>>
    /\ DOMAIN result.subcommittees # {}

\* a step that read a line
ReadStep == last.kind \notin {"start", "empty_page", "return"}

\* all-caps lines longer than 3 that do not start with SUBCOMMITTEE and hold a skip pattern
NoiseShaped == {l \in StrippedLines : IsHeaderLine(l) /\ MatchesSkipPattern(l)}

\* the noise lines that hold MAJORITY, and those that hold MINORITY and not MAJORITY
MajorityMarkers == {l \in NoiseShaped : Contains(l, "MAJORITY")}
MinorityMarkers == {l \in NoiseShaped \ MajorityMarkers : Contains(l, "MINORITY")}

\* lines that are neither blank nor a section header nor all caps as line 45 asks
CandidateShaped ==
    {l \in StrippedLines : l # "" /\ ~IsSectionHeader(l) /\ ~IsHeaderLine(l)}

\* C13: a blank line, a line that goes to the member-line parser, whether it yields
\* records or not, and a noise line that is no MAJORITY or MINORITY marker leave the
\* current committee, the current subcommittee, the section flag and the group as
\* they were; a marker line changes the group only.
C13_ScanStateFrame ==
    /\ (ReadStep /\ (last.line = "" \/ last.line \in CandidateShaped)) =>
           ScanState = last.before
    /\ (ReadStep /\ last.line \in NoiseShaped) =>
           /\ current_committee = last.before.current_committee
           /\ current_subcommittee = last.before.current_subcommittee
           /\ in_subcommittee_section = last.before.in_subcommittee_section
           /\ is_majority = IF last.line \in MajorityMarkers THEN TRUE
                            ELSE IF last.line \in MinorityMarkers THEN FALSE
                            ELSE last.before.is_majority

C13_Witness ==
    /\ ReadStep
    /\ last.line = "CONTENTS"
    /\ ~last.before.is_majority
    /\ ~is_majority
    /\ last.before.current_subcommittee # None
    /\ records # <<>>

\* C14 as stated: the group of every record of the numbered pattern is the group of
\* the last all-caps line holding MAJORITY or MINORITY read since the last name of a
\* main committee, and Majority when there is none since that name or since the
\* start of the document.
C14_GroupOfLastCapsMarker ==
    \A i \in 1..Len(records) :
        records[i].rule = "A" => records[i].assignment.group = records[i].seen.written

\* C14 amended: the group of every record of the numbered pattern is the group of
\* the last all-caps line holding MAJORITY or MINORITY and not starting with
\* SUBCOMMITTEE (Majority when it holds MAJORITY, else Minority) read since the last
\* name of a main committee, and Majority when there is none since that name or
\* since the start of the document.
C14_GroupOfLastMarker ==
    \A i \in 1..Len(records) :
        records[i].rule = "A" => records[i].assignment.group = records[i].seen.marked

C14_Witness ==
    \E i, j \in 1..Len(records) :
        /\ records[i].rule = "A"
        /\ records[i].assignment.group = "Majority"
        /\ records[i].seen.marked = "Majority"
        /\ records[i].seen.written = "Minority"
        /\ records[j].rule = "A"
        /\ records[j].assignment.group = "Minority"
        /\ records[j].seen.marked = "Minority"

\* C15: inside a subcommittee section of a known committee, an all-caps line longer
\* than 3 that does not start with SUBCOMMITTEE and holds no skip pattern becomes the
\* current subcommittee and leaves the current committee, the section flag and the
\* group as they were.
C15_SubcommitteeHeaderFrame ==
    (/\ ReadStep
     /\ last.line \in HeaderShaped
     /\ last.before.in_subcommittee_section
     /\ Truthy(last.before.current_committee)) =>
        /\ current_subcommittee = last.line
        /\ current_committee = last.before.current_committee
        /\ in_subcommittee_section = last.before.in_subcommittee_section
        /\ is_majority = last.before.is_majority

C15_Witness ==
    /\ last.kind = "subcommittee"
    /\ last.line \in HeaderShaped
    /\ ~last.before.is_majority
    /\ ~is_majority
    /\ last.before.current_subcommittee # None
    /\ last.before.current_subcommittee # last.line
    /\ current_subcommittee = last.line

\* the list of key k in dict d, empty when d has no such key
ListOf(d, k) == IF k \in DOMAIN d THEN d[k] ELSE <<>>

\* C16: the assignments of every member key are in page order: the pages along the
\* list never decrease, and every step appends the assignments of its line after
\* those of the lines read before, in the order of the matches on the line and with
\* the number of the page the line is on.
C16_MemberIndexInPageOrder ==
    /\ [](\A k \in DOMAIN member_assignments :
              \A i, j \in 1..Len(member_assignments[k]) :
                  i < j => member_assignments[k][i].page <= member_assignments[k][j].page)
    /\ [][/\ page_num' >= page_num
          /\ DOMAIN member_assignments \subseteq DOMAIN member_assignments'
          /\ \A k \in DOMAIN member_assignments' :
                 /\ member_assignments'[k] =
                        ListOf(member_assignments, k) \o AssignmentsOf(LastRecords', k)
                 /\ \A n \in Len(ListOf(member_assignments, k)) + 1 ..
                             Len(member_assignments'[k]) :
                        member_assignments'[k][n].page = page_num']_vars

C16_Witness ==
    \E k \in DOMAIN member_assignments :
        /\ Len(member_assignments[k]) >= 3
        /\ member_assignments[k][1].page = member_assignments[k][2].page
        /\ member_assignments[k][2].page < member_assignments[k][3].page
        /\ member_assignments[k][1].raw_line # member_assignments[k][2].raw_line

\* C17: a page without text is passed over: the step that goes to the next page
\* without reading a line changes neither the scan state nor an aggregate and leaves
\* the scan running, and every line is read in the scan state the step before it
\* left, whatever pages lie between.
C17_EmptyPageSkipped ==
    /\ [](last.kind = "empty_page" => ScanState = last.before /\ pc = "scan")
    /\ [][/\ (page_num' = page_num + 1 /\ nlines' = nlines) =>
                 /\ UNCHANGED <<scan, aggregate, records>>
                 /\ pc' = "scan"
                 /\ result' = None
          /\ nlines' = nlines + 1 => last'.before = ScanState]_vars

C17_Witness ==
    /\ last.kind = "empty_page"
    /\ empty_pages = 1
    /\ page_num >= 3
    /\ current_subcommittee # None
    /\ ~is_majority
    /\ records # <<>>
    /\ pc = "scan"

\* C18: the subcommittee section is never left: from a state with the section flag
\* set and a current committee, no step clears the flag or the committee, every
\* later all-caps line longer than 3 that does not start with SUBCOMMITTEE and holds
\* no skip pattern becomes a subcommittee of the current committee, and the current
\* committee changes only at a section header, to the name that follows ON.
C18_SubcommitteeModeAbsorbing ==
    (/\ last.kind # "start"
     /\ last.before.in_subcommittee_section
     /\ Truthy(last.before.current_committee)) =>
        /\ in_subcommittee_section
        /\ Truthy(current_committee)
        /\ last.kind # "committee"
        /\ (ReadStep /\ last.line \in HeaderShaped) =>
               /\ current_subcommittee = last.line
               /\ current_committee = last.before.current_committee
        /\ current_committee # last.before.current_committee =>
               /\ ReadStep
               /\ last.line \in SectionShaped
               /\ current_committee = AfterOn[last.line]

C18_Witness ==
    /\ ReadStep
    /\ last.line \in SectionShaped
    /\ last.before.in_subcommittee_section
    /\ last.before.current_committee = "ETHICS"
    /\ last.before.current_subcommittee # None
    /\ current_committee = "RULES"
    /\ in_subcommittee_section

\* list a is the beginning of list b
IsPrefix(a, b) == Len(a) <= Len(b) /\ SubSeq(b, 1, Len(a)) = a

\* C19: the number of records produced is the sum of the lengths of the lists of
\* member_assignments and also the sum of the lengths of the lists of committees and
\* of subcommittees; a step that produces n records adds n entries to
\* member_assignments and n entries to the lists of committees and subcommittees
\* together, and no list ever loses an entry.
C19_RecordConservation ==
    /\ [](/\ Len(records) = TotalLen(member_assignments)
          /\ Len(records) = TotalLen(committees) + TotalLen2(subcommittees))
    /\ [][/\ Len(records') = Len(records) + last'.emitted
          /\ TotalLen(member_assignments') = TotalLen(member_assignments) + last'.emitted
          /\ TotalLen(committees') + TotalLen2(subcommittees') =
                 TotalLen(committees) + TotalLen2(subcommittees) + last'.emitted
          /\ \A k \in DOMAIN member_assignments :
                 IsPrefix(member_assignments[k], ListOf(member_assignments', k))
          /\ \A c \in DOMAIN committees : IsPrefix(committees[c], ListOf(committees', c))
          /\ \A c \in DOMAIN subcommittees :
                 /\ c \in DOMAIN subcommittees'
                 /\ \A sc \in DOMAIN subcommittees[c] :
                        IsPrefix(subcommittees[c][sc], ListOf(subcommittees'[c], sc))]_vars

C19_Witness ==
    /\ \E c \in DOMAIN committees :
           /\ Len(committees[c]) >= 2
           /\ committees[c][1] = committees[c][2]
    /\ \E c \in DOMAIN subcommittees :
           \E sc \in DOMAIN subcommittees[c] :
               /\ Len(subcommittees[c][sc]) >= 1
               /\ subcommittees[c][sc][1] \in all_members
    /\ Len(records) = 3
    /\ Cardinality(all_members) = 1

\* the filings of the first n posts, one batch after the other
RECURSIVE Posted(_)
Posted(n) == IF n = 0 THEN <<>> ELSE Posted(n - 1) \o posts[n].filings

\* C20: submit_bulk_import posts the filings in consecutive batches of at most
\* batch_size, in the original order, every filing in exactly one batch; a batch
\* answered with another status than 200 or with an exception is not posted again
\* and the batches after it are posted all the same; the function ends after the
\* last batch.
C20_BatchesCoverFilings ==
    /\ [](/\ Posted(Len(posts)) = SubSeq(filings, 1, SetMin({batch_i, total}))
          /\ \A n \in 1..Len(posts) :
                 /\ Len(posts[n].filings) >= 1
                 /\ Len(posts[n].filings) <= batch_size
                 /\ n < Len(posts) => Len(posts[n].filings) = batch_size)
    /\ [](bulk_pc = "done" =>
              /\ Posted(Len(posts)) = filings
              /\ Len(posts) = (total + batch_size - 1) \div batch_size)
    /\ <>(bulk_pc = "done")

C20_Witness ==
    /\ bulk_pc = "done"
    /\ Len(posts) = 3
    /\ posts[1].response = "exception"
    /\ posts[2].response = "other"
    /\ posts[3].response = "200"
    /\ batch_size = 2
    /\ Len(posts[3].filings) = 1
    /\ total = 5

====
